---- MODULE Spec2Model ----
(***************************************************************************)
(* Model of the job cache lifecycle controller, src/src/process/job.ts     *)
(* (class Job), over the process_cache table of src/unnamed/part_000.      *)
(*                                                                         *)
(* Every collaborator call of Job is asynchronous.  A call whose result    *)
(* depends on what other flows did meanwhile (hasCache, getFullCache, the  *)
(* insert of createCache) is two steps: the collaborator acts on the       *)
(* table, and later the continuation of the caller runs.  The continuation *)
(* of an await runs to the next await without interruption.                *)
(*                                                                         *)
(* ProcessManager and Machine are not among the source files; they are     *)
(* modelled from their contract in spec.md (sections 4.1 and 6).           *)
(***************************************************************************)
EXTENDS Integers, Sequences, FiniteSets, TLC

\* ------------------------------------------------------------- bounds
\* Rows the process_cache table may hold.
MaxRecords == 2
\* load() invocations, over all controller instances.
MaxLoads == 2
\* Rows already in the table when the instances are constructed.
MaxPrior == 1

\* The controller instances, the cache keys and values, the machine names.
Jobs == {1, 2}
Keys == {"k1", "k2", "constructor"}
Values == {"v1"}
Machines == {"ci-1", "ci-2"}
PriorValue == "v0"

VARIABLES
    machineName,   \* machine name each instance was constructed with
    processes,     \* process table: names, the id is the position
    processJobs,   \* job table: <<process id, name>>, the id is the position
    store,         \* process_cache table, rows in insertion order
    process,       \* this.process     (0: null)
    processJob,    \* this.processJob  (0: null)
    cacheResults,  \* this.cacheResults: id -> record
    cacheTree,     \* this.cacheTree: key -> records
    loaded,        \* this.loaded
    loads,         \* the load() invocations of each instance, in call order
    creates,       \* the last createCache() of each instance, while unsettled
    own,           \* ghost: ids of the rows each instance inserted
    early,         \* ghost: createCache() was called before load() completed
    did            \* ghost: identity resolutions and hook calls of each instance

vars == <<machineName, processes, processJobs, store, process, processJob,
          cacheResults, cacheTree, loaded, loads, creates, own, early, did>>

\* -------------------------------------------------- constructor arguments
processName(i) == "build"
jobName(i) == "compile"

\* Mutant of JobMachine: every instance is bound to the same machine.
JobMachineShared(i) == "ci-1"
\* new Machine(database, machineName): the instance's own machine.
JobMachine(i) == machineName[i]

\* ------------------------------------------------------ process_cache rows
\* A row of process_cache: the columns of ProcessCacheAttributeDefinition
\* (timestamps are caller-managed and always left at their default).
Row(id, p, j, m, k, v) ==
    [id |-> id, process |-> p, job |-> j, machine |-> m, key |-> k, value |-> v]

\* Mutant of NextId: the id is not incremented.
NextIdFixed(s) == 1
\* id: primaryKey, autoIncrement.  Rows are never deleted, so the next id
\* is one more than the number of rows.
NextId(s) == Len(s) + 1

\* Mutant of KeyInsert: the key is unique, an insert replaces the row that
\* has it.
KeyUpsert(s, row) ==
    IF \E n \in 1..Len(s) : s[n].key = row.key
    THEN [n \in 1..Len(s) |-> IF s[n].key = row.key THEN row ELSE s[n]]
    ELSE Append(s, row)
\* The key column's index is not unique: an insert never fails, and never
\* replaces, because the key is taken.
KeyInsert(s, row) == Append(s, row)

\* ------------------------------------------ collaborators (from spec.md)
\* IdentityResolver: create-or-fetch by name.
Position(seq, x) == CHOOSE n \in 1..Len(seq) : seq[n] = x
Known(seq, x) == \E n \in 1..Len(seq) : seq[n] = x
Resolve(seq, x) == IF Known(seq, x) THEN seq ELSE Append(seq, x)
ResolvedId(seq, x) == Position(Resolve(seq, x), x)

\* CacheStore, as one Machine sees it: the rows of its own machine name
\* under (process, job), in table order.
InPartition(r, m, p, j) == r.machine = m /\ r.process = p /\ r.job = j
MachineFullCache(s, m, p, j) == SelectSeq(s, LAMBDA r : InPartition(r, m, p, j))
MachineGetCache(s, m, p, j, k) ==
    SelectSeq(s, LAMBDA r : InPartition(r, m, p, j) /\ r.key = k)
MachineHasCache(s, m, p, j) == Len(MachineFullCache(s, m, p, j)) > 0
MachineHasCacheKey(s, m, p, j, k) == Len(MachineGetCache(s, m, p, j, k)) > 0
\* A collaborator cannot scope a call whose process or job is still null:
\* the call fails inside the collaborator.
Scoped(p, j) == p # 0 /\ j # 0

\* ---------------------------------------------------------- the index
Range(seq) == {seq[n] : n \in 1..Len(seq)}
Put(f, id, r) == [x \in DOMAIN f \cup {id} |-> IF x = id THEN r ELSE f[x]]
EmptyResults == [x \in {} |-> 0]
EmptyTree == [k \in Keys |-> <<>>]

\* cacheTree is an object literal: besides the buckets assigned to it, it
\* has the members every object inherits.  Of the keys, these name one.
Inherited == {"constructor"}
\* typeof this.cacheTree[key] == 'undefined' is false for an inherited
\* member, no bucket is created, and the member has no push: the call of
\* push throws.
PushThrows(r) == r.key \in Inherited

\* Mutant of TreePush: the record is put at the front of the bucket.
TreePushFront(tree, r) == [tree EXCEPT ![r.key] = <<r>> \o @]
\* One pass of the loop of syncCache, or the body of createCache's then:
\* push onto the key's bucket (created when absent), set the id's entry.
TreePush(tree, r) == [tree EXCEPT ![r.key] = Append(@, r)]

\* The loop of syncCache ends at the first row whose push throws; in each
\* pass the push comes before the id's entry is set.
LoopThrows(rows) == \E n \in 1..Len(rows) : PushThrows(rows[n])

RECURSIVE TreeOf(_, _)
TreeOf(tree, rows) ==
    IF rows = <<>> \/ PushThrows(Head(rows)) THEN tree
    ELSE TreeOf(TreePush(tree, Head(rows)), Tail(rows))

RECURSIVE ResultsOf(_, _)
ResultsOf(res, rows) ==
    IF rows = <<>> \/ PushThrows(Head(rows)) THEN res
    ELSE ResultsOf(Put(res, Head(rows).id, Head(rows)), Tail(rows))

\* ------------------------------------------------------------- Init
NoCreate == [st |-> "none"]

PriorMachine == "ci-1"
PriorRows(n) == [1..n -> {Row(0, 1, 1, PriorMachine, k, PriorValue) : k \in Keys}]
WithIds(rows) == [n \in 1..Len(rows) |-> [rows[n] EXCEPT !.id = n]]
PriorStores == {WithIds(rows) : rows \in UNION {PriorRows(n) : n \in 0..MaxPrior}}

Init ==
    /\ machineName \in {f \in [Jobs -> Machines] : f[1] = "ci-1"}
    /\ store \in PriorStores
    /\ processes = IF store = <<>> THEN <<>> ELSE <<"build">>
    /\ processJobs = IF store = <<>> THEN <<>> ELSE << <<1, "compile">> >>
    /\ process = [i \in Jobs |-> 0]
    /\ processJob = [i \in Jobs |-> 0]
    /\ cacheResults = [i \in Jobs |-> EmptyResults]
    /\ cacheTree = [i \in Jobs |-> EmptyTree]
    /\ loaded = [i \in Jobs |-> FALSE]
    /\ loads = [i \in Jobs |-> <<>>]
    /\ creates = [i \in Jobs |-> NoCreate]
    /\ own = [i \in Jobs |-> {}]
    /\ early = [i \in Jobs |-> FALSE]
    /\ did = [i \in Jobs |-> [identity |-> 0, hook |-> 0]]

\* ------------------------------------------------------------- load()
\* Mutant of LoadGuard: the body of load() runs on every call.
LoadGuardAlways(i) == TRUE
\* The guard of load(): the body runs only while this.loaded is false.
LoadGuard(i) == loaded[i] = FALSE

\* The promise load() returns: the executor is handed resolve only, so the
\* promise is resolved at the end of the executor or stays pending.
LoadPromise(th) == IF th.pc = "resolved" THEN "resolved" ELSE "pending"

\* Mutant of BranchHook: the two branches exchanged.
BranchHookSwapped(has) == IF has THEN "empty" ELSE "exist"
\* The branch of load() on the result of the existence check.
BranchHook(has) == IF has THEN "exist" ELSE "empty"

Running(th) == th.pc \notin {"resolved", "threw", "stuck"}
Called == LET n[S \in SUBSET Jobs] ==
                  IF S = {} THEN 0
                  ELSE LET i == CHOOSE x \in S : TRUE IN Len(loads[i]) + n[S \ {i}]
          IN n[Jobs]
InHook(th) == th.pc \in {"onCacheExist", "onCacheEmpty"}
Threads(i) == 1..Len(loads[i])
\* Mutant of At: a continuation runs whatever its load() is waiting for.
AtAny(i, t, pc) == t \in Threads(i)
\* The continuation of an await runs when that await, and no other, has
\* settled: load() number t of instance i is waiting at pc.
At(i, t, pc) == t \in Threads(i) /\ loads[i][t].pc = pc
Goto(i, t, pc) == loads' = [loads EXCEPT ![i][t].pc = pc]
\* A rejected await inside the executor: the executor's own promise rejects,
\* nobody holds it, and resolve is never called.
Throw(i, t) ==
    loads' = [loads EXCEPT ![i][t] = [pc |-> "threw", ran |-> TRUE, has |-> FALSE, result |-> <<>>]]

\* load() is called: the executor runs to its first await.
Load(i) ==
    /\ Called < MaxLoads
    /\ loads' = [loads EXCEPT ![i] = Append(@,
           [pc |-> IF LoadGuard(i) THEN "mgrLoad" ELSE "resolved",
            ran |-> LoadGuard(i), has |-> FALSE, result |-> <<>>])]
    /\ UNCHANGED <<machineName, processes, processJobs, store, process,
                   processJob, cacheResults, cacheTree, loaded, creates, own, early, did>>

\* await this.processManager.load()
ManagerLoad(i, t, ok) ==
    /\ At(i, t, "mgrLoad")
    /\ IF ok THEN Goto(i, t, "machineLoad") ELSE Throw(i, t)
    /\ UNCHANGED <<machineName, processes, processJobs, store, process,
                   processJob, cacheResults, cacheTree, loaded, creates, own, early, did>>

\* await this.machine.load()
MachineLoad(i, t, ok) ==
    /\ At(i, t, "machineLoad")
    /\ IF ok THEN Goto(i, t, "createProcess") ELSE Throw(i, t)
    /\ UNCHANGED <<machineName, processes, processJobs, store, process,
                   processJob, cacheResults, cacheTree, loaded, creates, own, early, did>>

\* this.process = await this.processManager.createProcess(this.processName)
CreateProcess(i, t, ok) ==
    /\ At(i, t, "createProcess")
    /\ IF ok
       THEN /\ processes' = Resolve(processes, processName(i))
            /\ process' = [process EXCEPT ![i] = ResolvedId(processes, processName(i))]
            /\ Goto(i, t, "createJob")
       ELSE /\ Throw(i, t)
            /\ UNCHANGED <<processes, process>>
    /\ did' = [did EXCEPT ![i].identity = @ + 1]
    /\ UNCHANGED <<machineName, processJobs, store, processJob,
                   cacheResults, cacheTree, loaded, creates, own, early>>

\* this.processJob = await this.processManager.createJob(this.process, this.jobName)
\* and, in the same continuation, the call of this.hasCache().
CreateJob(i, t, ok) ==
    /\ At(i, t, "createJob")
    /\ IF ok
       THEN /\ processJobs' = Resolve(processJobs, <<process[i], jobName(i)>>)
            /\ processJob' = [processJob EXCEPT
                   ![i] = ResolvedId(processJobs, <<process[i], jobName(i)>>)]
            /\ Goto(i, t, "hasCache")
       ELSE /\ Throw(i, t)
            /\ UNCHANGED <<processJobs, processJob>>
    /\ UNCHANGED <<machineName, processes, store, process,
                   cacheResults, cacheTree, loaded, creates, own, early, did>>

\* The existence check reads the table (or fails).
HasCacheRead(i, t, ok) ==
    /\ At(i, t, "hasCache")
    /\ IF ok
       THEN loads' = [loads EXCEPT
                ![i][t].pc = "branch",
                ![i][t].has = MachineHasCache(store, JobMachine(i), process[i], processJob[i])]
       ELSE Throw(i, t)
    /\ UNCHANGED <<machineName, processes, processJobs, store, process,
                   processJob, cacheResults, cacheTree, loaded, creates, own, early, did>>

\* Mutant of Branch: both maps are emptied on either branch.
BranchClears(i, t) ==
    /\ At(i, t, "branch")
    /\ cacheResults' = [cacheResults EXCEPT ![i] = EmptyResults]
    /\ cacheTree' = [cacheTree EXCEPT ![i] = EmptyTree]
    /\ IF BranchHook(loads[i][t].has) = "exist"
       THEN /\ loads' = [loads EXCEPT ![i][t].pc = "getFullCache", ![i][t].has = FALSE]
            /\ UNCHANGED did
       ELSE /\ Goto(i, t, "onCacheEmpty")
            /\ did' = [did EXCEPT ![i].hook = @ + 1]
    /\ UNCHANGED <<machineName, processes, processJobs, store, process,
                   processJob, loaded, creates, own, early>>
\* let hasCache = await this.hasCache(); if (hasCache) ... else ...
\* With a cache: syncCache() starts, which empties both maps and calls
\* getFullCache().  Without: onCacheEmpty() is called.
Branch(i, t) ==
    /\ At(i, t, "branch")
    /\ IF BranchHook(loads[i][t].has) = "exist"
       THEN /\ cacheResults' = [cacheResults EXCEPT ![i] = EmptyResults]
            /\ cacheTree' = [cacheTree EXCEPT ![i] = EmptyTree]
            /\ loads' = [loads EXCEPT ![i][t].pc = "getFullCache", ![i][t].has = FALSE]
            /\ UNCHANGED did
       ELSE /\ Goto(i, t, "onCacheEmpty")
            /\ did' = [did EXCEPT ![i].hook = @ + 1]
            /\ UNCHANGED <<cacheResults, cacheTree>>
    /\ UNCHANGED <<machineName, processes, processJobs, store, process,
                   processJob, loaded, creates, own, early>>

\* The full fetch of syncCache reads the table (or fails: the executor of
\* syncCache rejects, its promise stays pending and load() with it).
FullCacheRead(i, t, ok) ==
    /\ At(i, t, "getFullCache")
    /\ IF ok
       THEN loads' = [loads EXCEPT
                ![i][t].pc = "build",
                ![i][t].result = MachineFullCache(store, JobMachine(i), process[i], processJob[i])]
       ELSE Goto(i, t, "stuck")
    /\ UNCHANGED <<machineName, processes, processJobs, store, process,
                   processJob, cacheResults, cacheTree, loaded, creates, own, early, did>>

\* The loop of syncCache over the fetched rows, then, syncCache resolved,
\* the call of onCacheExist().  When a push throws, the executor of
\* syncCache rejects: its promise stays pending and load() with it.
Build(i, t) ==
    /\ At(i, t, "build")
    /\ cacheTree' = [cacheTree EXCEPT ![i] = TreeOf(@, loads[i][t].result)]
    /\ cacheResults' = [cacheResults EXCEPT ![i] = ResultsOf(@, loads[i][t].result)]
    /\ IF LoopThrows(loads[i][t].result)
       THEN /\ loads' = [loads EXCEPT ![i][t].pc = "stuck", ![i][t].result = <<>>]
            /\ UNCHANGED did
       ELSE /\ loads' = [loads EXCEPT ![i][t].pc = "onCacheExist", ![i][t].result = <<>>]
            /\ did' = [did EXCEPT ![i].hook = @ + 1]
    /\ UNCHANGED <<machineName, processes, processJobs, store, process,
                   processJob, loaded, creates, own, early>>

\* The hook settles: this.loaded = true and resolve(), or the executor throws.
HookDone(i, t, ok) ==
    /\ t \in Threads(i) /\ InHook(loads[i][t])
    /\ IF ok
       THEN /\ loaded' = [loaded EXCEPT ![i] = TRUE]
            /\ Goto(i, t, "resolved")
       ELSE /\ Throw(i, t)
            /\ UNCHANGED loaded
    /\ UNCHANGED <<machineName, processes, processJobs, store, process,
                   processJob, cacheResults, cacheTree, creates, own, early, did>>

\* ------------------------------------------------- the public operations
\* What the promise of a wrapper that returns the collaborator's own promise
\* settles with: the collaborator's value, or its error (ok: the collaborator
\* succeeds).  No wrapper looks at this.loaded; each calls the collaborator.
Delegated(i, ok, value) ==
    IF ok /\ Scoped(process[i], processJob[i])
    THEN [outcome |-> "resolved", value |-> value, error |-> "none", reached |-> TRUE]
    ELSE [outcome |-> "rejected", value |-> <<>>,
          error |-> IF ok THEN "NullIdentity" ELSE "StoreError", reached |-> TRUE]

\* createLog(message, logType): return this.machine.createLog(...)
createLog(i, ok) ==
    Delegated(i, ok, <<process[i], processJob[i], JobMachine(i)>>)

\* Mutant of getCache: the records are read from the local index.
getCacheLocal(i, k, ok) == Delegated(i, ok, cacheTree[i][k])
\* getCache(key): return this.machine.getCache(process, processJob, key)
getCache(i, k, ok) ==
    Delegated(i, ok, MachineGetCache(store, JobMachine(i), process[i], processJob[i], k))

\* hasCacheKey(key): return this.machine.hasCacheKey(process, processJob, key)
hasCacheKey(i, k, ok) ==
    Delegated(i, ok, MachineHasCacheKey(store, JobMachine(i), process[i], processJob[i], k))

\* hasCache(): return this.machine.hasCache(process, processJob)
hasCache(i, ok) ==
    Delegated(i, ok, MachineHasCache(store, JobMachine(i), process[i], processJob[i]))

\* getFullCache(): return this.machine.getFullCache(process, processJob)
getFullCache(i, ok) ==
    Delegated(i, ok, MachineFullCache(store, JobMachine(i), process[i], processJob[i]))

\* createCache(key, value) is called: the executor calls machine.createCache
\* with the identities as they are now.
Settled(c) == c.st \in {"none", "pending"}
InFlight == Cardinality({j \in Jobs : creates[j].st = "issued"})
CreateCache(i, k, v) ==
    /\ Settled(creates[i])
    /\ Len(store) + InFlight < MaxRecords
    /\ creates' = [creates EXCEPT ![i] =
           [st |-> "issued", key |-> k, value |-> v,
            process |-> process[i], job |-> processJob[i]]]
    /\ early' = [early EXCEPT ![i] = @ \/ ~loaded[i]]
    /\ UNCHANGED <<machineName, processes, processJobs, store, process, processJob,
                   cacheResults, cacheTree, loaded, loads, own, did>>

\* The collaborator inserts the row; the store assigns the id.
CreateCacheInsert(i) ==
    /\ creates[i].st = "issued"
    /\ Scoped(creates[i].process, creates[i].job)
    /\ LET row == Row(NextId(store), creates[i].process, creates[i].job,
                      JobMachine(i), creates[i].key, creates[i].value)
       IN /\ store' = KeyInsert(store, row)
          /\ creates' = [creates EXCEPT ![i] = [st |-> "inserted", row |-> row]]
          /\ own' = [own EXCEPT ![i] = @ \cup {row.id}]
    /\ UNCHANGED <<machineName, processes, processJobs, process, processJob,
                   cacheResults, cacheTree, loaded, loads, early, did>>

\* Mutant of CreateCacheFail: the index is updated although the insert
\* failed, with a record made from the arguments.
CreateCacheFailWrites(i) ==
    /\ creates[i].st = "issued"
    /\ creates' = [creates EXCEPT ![i] = [st |-> "pending"]]
    /\ cacheResults' = [cacheResults EXCEPT ![i] =
           Put(@, NextId(store), Row(NextId(store), creates[i].process, creates[i].job,
                                     JobMachine(i), creates[i].key, creates[i].value))]
    /\ UNCHANGED <<machineName, processes, processJobs, store, process, processJob,
                   cacheTree, loaded, loads, own, early, did>>
\* The collaborator's promise rejects.  createCache attaches then() with no
\* rejection handler and its executor is handed resolve only: nothing runs,
\* and the promise createCache returned stays pending.
CreateCacheFail(i) ==
    /\ creates[i].st = "issued"
    /\ creates' = [creates EXCEPT ![i] = [st |-> "pending"]]
    /\ UNCHANGED <<machineName, processes, processJobs, store, process, processJob,
                   cacheResults, cacheTree, loaded, loads, own, early, did>>

\* then((result) => { cacheResults[result.id] = result; push onto
\* cacheTree[result.key]; resolve(result) }).  When the push throws, the id's
\* entry is already set and resolve is not reached: the promise createCache
\* returned stays pending.
CreateCacheThen(i) ==
    /\ creates[i].st = "inserted"
    /\ cacheResults' = [cacheResults EXCEPT
           ![i] = Put(@, creates[i].row.id, creates[i].row)]
    /\ IF PushThrows(creates[i].row)
       THEN /\ UNCHANGED cacheTree
            /\ creates' = [creates EXCEPT ![i] = [st |-> "pending"]]
       ELSE /\ cacheTree' = [cacheTree EXCEPT ![i] = TreePush(@, creates[i].row)]
            /\ creates' = [creates EXCEPT ![i] = NoCreate]
    /\ UNCHANGED <<machineName, processes, processJobs, store, process, processJob,
                   loaded, loads, own, early, did>>

\* ------------------------------------------------------------- Next
Next ==
    \/ \E i \in Jobs : Load(i)
    \/ \E i \in Jobs, t \in 1..MaxLoads, ok \in BOOLEAN : ManagerLoad(i, t, ok)
    \/ \E i \in Jobs, t \in 1..MaxLoads, ok \in BOOLEAN : MachineLoad(i, t, ok)
    \/ \E i \in Jobs, t \in 1..MaxLoads, ok \in BOOLEAN : CreateProcess(i, t, ok)
    \/ \E i \in Jobs, t \in 1..MaxLoads, ok \in BOOLEAN : CreateJob(i, t, ok)
    \/ \E i \in Jobs, t \in 1..MaxLoads, ok \in BOOLEAN : HasCacheRead(i, t, ok)
    \/ \E i \in Jobs, t \in 1..MaxLoads : Branch(i, t)
    \/ \E i \in Jobs, t \in 1..MaxLoads, ok \in BOOLEAN : FullCacheRead(i, t, ok)
    \/ \E i \in Jobs, t \in 1..MaxLoads : Build(i, t)
    \/ \E i \in Jobs, t \in 1..MaxLoads, ok \in BOOLEAN : HookDone(i, t, ok)
    \/ \E i \in Jobs, k \in Keys, v \in Values : CreateCache(i, k, v)
    \/ \E i \in Jobs : CreateCacheInsert(i)
    \/ \E i \in Jobs : CreateCacheFail(i)
    \/ \E i \in Jobs : CreateCacheThen(i)

Spec == Init /\ [][Next]_vars

\* =====================================================================
\* Properties
\* =====================================================================
\* The record sets of the local index and of storage, as instance i sees it.
TreeRows(i) == UNION {Range(cacheTree[i][k]) : k \in Keys}
ResultRows(i) == {cacheResults[i][id] : id \in DOMAIN cacheResults[i]}
PartitionRows(i) ==
    Range(MachineFullCache(store, JobMachine(i), process[i], processJob[i]))
NoRepeat(seq) == \A a, b \in 1..Len(seq) : a # b => seq[a] # seq[b]
\* No load() of i is under way, and no createCache() of i awaits its then().
Quiescent(i) ==
    /\ \A t \in Threads(i) : ~Running(loads[i][t])
    /\ Settled(creates[i])
\* The load() invocation that instance i made with this step, if any.
Calls(i) == Len(loads'[i]) = Len(loads[i]) + 1
\* Thread t of instance i moves from pc a to pc b with this step.
Moves(i, t, a, b) == At(i, t, a) /\ loads'[i][t].pc = b
Enters(i, t, b) == t \in Threads(i) /\ loads[i][t].pc # b /\ loads'[i][t].pc = b

\* ---------------------------------------------------------------- C1
\* C1: a load() called on an instance that is already loaded resolves at
\* once and changes nothing: no identity resolution, no existence check, no
\* sync, no hook.  Over a completed load() and any later ones, identity
\* resolution and the hook each happened exactly once.
SecondLoadIsNoop ==
    \A i \in Jobs :
        (loaded[i] /\ Calls(i)) =>
            /\ LoadPromise(loads'[i][Len(loads'[i])]) = "resolved"
            /\ ~loads'[i][Len(loads'[i])].ran
            /\ UNCHANGED <<processes, processJobs, store, process, processJob,
                           cacheResults, cacheTree, loaded, creates, did>>
OnceOverAllCalls ==
    \A i \in Jobs :
        (/\ Len(loads[i]) >= 2
         /\ loads[i][1].pc = "resolved" /\ loads[i][1].ran
         /\ \A t \in 2..Len(loads[i]) : ~loads[i][t].ran)
        => /\ did[i] = [identity |-> 1, hook |-> 1]
           /\ \A t \in 2..Len(loads[i]) : loads[i][t].pc = "resolved"
\* C1 (idempotent load): the step and the count above, in every behaviour.
C1_IdempotentLoad == [][SecondLoadIsNoop]_vars /\ []OnceOverAllCalls
C1_Witness ==
    \E i \in Jobs :
        /\ Len(loads[i]) = 2
        /\ loads[i][1].pc = "resolved" /\ loads[i][1].ran
        /\ loads[i][2].pc = "resolved" /\ ~loads[i][2].ran
        /\ did[i] = [identity |-> 1, hook |-> 1]

\* ---------------------------------------------------------------- C2
\* C2 as claimed: with every instance used as intended (one load(), no
\* createCache() before it completes), an instance takes the onCacheEmpty branch exactly when its
\* existence check found no record; it calls onCacheExist only out of a
\* sync, and at that moment key buckets and id map hold exactly the records
\* storage holds for it.
AsIntended == \A j \in Jobs : Len(loads[j]) <= 1 /\ ~early[j]
HookAsChecked(i, t) ==
    /\ Moves(i, t, "hasCache", "branch") =>
           loads'[i][t].has = (PartitionRows(i) # {})
    /\ (At(i, t, "branch") /\ loads'[i][t] # loads[i][t]) =>
           IF loads[i][t].has
           THEN /\ loads'[i][t].pc = "getFullCache"
                /\ did'[i].hook = did[i].hook
           ELSE /\ loads'[i][t].pc = "onCacheEmpty"
                /\ did'[i].hook = did[i].hook + 1
    /\ Enters(i, t, "onCacheEmpty") => (At(i, t, "branch") /\ ~loads[i][t].has)
    /\ Enters(i, t, "onCacheExist") => At(i, t, "build")
IndexIsStorage(i) ==
    /\ TreeRows(i) = PartitionRows(i)
    /\ ResultRows(i) = PartitionRows(i)
\* C2 as claimed: the hook follows the existence check, and at onCacheExist
\* the index is exactly what storage holds.
C2_ExistenceBranchExact ==
    [][\A i \in Jobs : \A t \in Threads(i) :
          /\ HookAsChecked(i, t)
          /\ (AsIntended /\ Enters(i, t, "onCacheExist")) => IndexIsStorage(i)']_vars

\* C2, amended: the branch follows the existence check as above; when
\* onCacheExist is called, key buckets and id map hold every record the
\* sync's full fetch returned and only records that are in storage, and they
\* hold exactly the records in storage if none was inserted after the fetch.
IndexCoversFetch(i, t) ==
    /\ Range(loads[i][t].result) \subseteq TreeRows(i)'
    /\ Range(loads[i][t].result) \subseteq ResultRows(i)'
    /\ TreeRows(i)' \subseteq PartitionRows(i)'
    /\ ResultRows(i)' \subseteq PartitionRows(i)'
    /\ (PartitionRows(i)' = Range(loads[i][t].result)) => IndexIsStorage(i)'
\* C2, amended: the hook follows the existence check, and at onCacheExist
\* the index covers the fetch and holds nothing storage does not.
C2_ExistenceBranch ==
    [][\A i \in Jobs : \A t \in Threads(i) :
          /\ HookAsChecked(i, t)
          /\ Enters(i, t, "onCacheExist") => IndexCoversFetch(i, t)]_vars
\* Both branches were taken, and a sync produced a non-empty index.
C2_Witness ==
    \E i, j \in Jobs :
        /\ At(i, 1, "onCacheExist") /\ IndexIsStorage(i) /\ TreeRows(i) # {}
        /\ At(j, 1, "onCacheEmpty") /\ PartitionRows(j) = {}

\* ---------------------------------------------------------------- C3
\* C3: no public operation of an instance whose load() has not completed
\* gets through: none resolves, none reaches storage or the log.
\* (The claim asks for more, an InvalidState error; this much already fails.)
Rejects(r) == r.outcome = "rejected"
\* C3 (state guard): an unloaded instance lets no public operation through.
C3_StateGuard ==
    \A i \in Jobs :
        ~loaded[i] =>
            /\ Rejects(createLog(i, TRUE))
            /\ Rejects(hasCache(i, TRUE))
            /\ Rejects(getFullCache(i, TRUE))
            /\ \A k \in Keys : Rejects(getCache(i, k, TRUE)) /\ Rejects(hasCacheKey(i, k, TRUE))
            /\ own[i] = {}

\* ---------------------------------------------------------------- C4
\* C4: a load() in which a collaborator step or a hook failed has rejected
\* its promise.
Failed(th) == th.pc \in {"threw", "stuck"}
C4_LoadFailureSurfaced ==
    \A i \in Jobs : \A t \in Threads(i) :
        Failed(loads[i][t]) => LoadPromise(loads[i][t]) = "rejected"

\* ---------------------------------------------------------------- C5
\* C5: after the only load() of an instance has failed, the instance is
\* unloaded and holds neither a process nor a job identity.
C5_NoPartialState ==
    \A i \in Jobs :
        (Len(loads[i]) = 1 /\ Failed(loads[i][1])) =>
            ~loaded[i] /\ process[i] = 0 /\ processJob[i] = 0

\* ---------------------------------------------------------------- C6
\* C6: on a loaded instance that is the only writer and whose createCache()
\* calls were all made after it was loaded, once the calls have completed
\* (each resolved its promise, and every load() called on it has resolved)
\* the id map and the key buckets hold exactly the records getFullCache()
\* returns, each once.
OnlyWriter(i) == \A j \in Jobs \ {i} : own[j] = {}
IndexExact(i) ==
    /\ IndexIsStorage(i)
    /\ \A k \in Keys : NoRepeat(cacheTree[i][k])
    /\ \A id \in DOMAIN cacheResults[i] : cacheResults[i][id].id = id
    /\ ResultRows(i) = Range(getFullCache(i, TRUE).value)
Completed(i) ==
    /\ Settled(creates[i])
    /\ \A r \in Range(store) : r.id \in own[i] => ~PushThrows(r)
\* C6 (index consistency after incremental write): once the calls have
\* completed, the index of a loaded only writer is exactly its storage.
C6_IndexConsistent ==
    \A i \in Jobs :
        (/\ loaded[i] /\ ~early[i] /\ OnlyWriter(i) /\ own[i] # {}
         /\ Completed(i)
         /\ \A t \in Threads(i) : loads[i][t].pc = "resolved")
            => IndexExact(i)

\* ---------------------------------------------------------------- C7
\* C7: every insert of createCache() gets an id no row has yet, leaves the
\* rows already in the table as they are, and getCache(key) of every
\* instance on the same (process, job, machine) returns what it returned
\* before followed by the new row (and for another key, what it returned
\* before): two records under one key are both
\* returned, in creation order.
Ids(s) == {s[n].id : n \in 1..Len(s)}
SamePartition(i, j) ==
    /\ JobMachine(i) = JobMachine(j)
    /\ process[i] = process[j] /\ processJob[i] = processJob[j]
InsertKeepsKey(i) ==
    (creates[i].st = "issued" /\ creates'[i].st = "inserted") =>
        LET row == creates'[i].row
        IN /\ row.id \notin Ids(store)
           /\ row.key = creates[i].key /\ row.value = creates[i].value
           /\ \A j \in Jobs : \A k \in Keys :
                  SamePartition(i, j) =>
                      getCache(j, k, TRUE)'.value =
                          IF k = creates[i].key
                          THEN Append(getCache(j, k, TRUE).value, row)
                          ELSE getCache(j, k, TRUE).value
\* C7 (key non-uniqueness): every insert step is as above.
C7_KeyNotUnique == [][\A i \in Jobs : InsertKeepsKey(i)]_vars
\* One instance created two records under one key; getCache returns both.
C7_Witness ==
    \E i \in Jobs : \E k \in Keys :
        LET got == getCache(i, k, TRUE).value
        IN /\ loaded[i] /\ Quiescent(i)
           /\ Len(got) >= 2
           /\ \E a, b \in 1..Len(got) :
                  a < b /\ got[a].id < got[b].id /\ {got[a].id, got[b].id} \subseteq own[i]

\* ---------------------------------------------------------------- C8
\* C8: between two instances constructed with different machine names,
\* no record one created is returned by the other's getCache or
\* getFullCache or sits in the other's index, and the other's hasCache,
\* hasCacheKey and the existence check of its load() are true only for
\* records of its own machine.
Holds(r) == r.outcome = "resolved" /\ r.value = TRUE
Foreign(i, j) == {r \in Range(store) : r.id \in own[j]}
C8_MachineIsolation ==
    \A i, j \in Jobs :
        machineName[i] # machineName[j] =>
            /\ Foreign(i, j) \cap Range(getFullCache(i, TRUE).value) = {}
            /\ \A k \in Keys : Foreign(i, j) \cap Range(getCache(i, k, TRUE).value) = {}
            /\ Foreign(i, j) \cap (TreeRows(i) \cup ResultRows(i)) = {}
            /\ Holds(hasCache(i, TRUE)) =>
                   \E r \in Range(store) : r.machine = machineName[i]
            /\ \A k \in Keys :
                   Holds(hasCacheKey(i, k, TRUE)) =>
                       \E r \in Range(store) : r.machine = machineName[i] /\ r.key = k
            /\ \A t \in Threads(i) :
                   (loads[i][t].pc = "branch" /\ loads[i][t].has) =>
                       \E r \in Range(store) : r.machine = machineName[i]
\* The other machine's instance wrote a record; this one then loaded on the
\* cache-empty branch and sees nothing.
C8_Witness ==
    \E i, j \in Jobs :
        /\ machineName[i] # machineName[j]
        /\ Foreign(i, j) # {}
        /\ At(i, 1, "onCacheEmpty")
        /\ hasCache(i, TRUE) = [outcome |-> "resolved", value |-> FALSE,
                                error |-> "none", reached |-> TRUE]
        /\ TreeRows(i) = {}

\* ---------------------------------------------------------------- C9
\* C9: no step removes or changes a row of the table: the table after a
\* step is the table before it, possibly with rows added at the end.
C9_AppendOnly ==
    [][/\ Len(store') >= Len(store)
       /\ \A n \in 1..Len(store) : store'[n] = store[n]]_vars
\* The table grew although a load() failed.
C9_Witness ==
    /\ \E i \in Jobs : \E t \in Threads(i) : Failed(loads[i][t])
    /\ \E i \in Jobs : own[i] # {}
    /\ Len(store) >= 2

\* --------------------------------------------------------------- C10
\* C10: a failure of the storage collaborator rejects the promise of the
\* operation that met it: of the wrappers getCache, hasCacheKey, hasCache,
\* getFullCache, and of createCache, whose promise is not left pending.
C10_StoreErrorsPropagate ==
    \A i \in Jobs :
        (loaded[i] /\ ~early[i]) =>
            /\ getFullCache(i, FALSE) = [outcome |-> "rejected", value |-> <<>>,
                                         error |-> "StoreError", reached |-> TRUE]
            /\ hasCache(i, FALSE).error = "StoreError"
            /\ \A k \in Keys : /\ getCache(i, k, FALSE).error = "StoreError"
                               /\ hasCacheKey(i, k, FALSE).error = "StoreError"
            /\ creates[i].st # "pending"

\* --------------------------------------------------------------- C11
\* Record r sits in the index of instance i: in the bucket of its key and
\* under its id.
InBucket(i, r) == \E n \in 1..Len(cacheTree[i][r.key]) : cacheTree[i][r.key][n] = r
InIdMap(i, r) == r.id \in DOMAIN cacheResults[i] /\ cacheResults[i][r.id] = r
Contains(i, r) == InBucket(i, r) /\ InIdMap(i, r)
\* Record r was created by a createCache() of instance i that has completed:
\* its then() ran and resolved the promise.
CreatedBy(i, r) ==
    /\ r.id \in own[i] /\ ~PushThrows(r)
    /\ ~(creates[i].st = "inserted" /\ creates[i].row.id = r.id)
\* Instance j has been used for nothing but one load().
Fresh(j) == Len(loads[j]) = 1 /\ own[j] = {} /\ creates[j] = NoCreate /\ ~early[j]
\* The records of j's partition that another instance, loaded when it wrote,
\* has created, when j itself is fresh.
Created(j, r) == Fresh(j) /\ \E i \in Jobs \ {j} : ~early[i] /\ CreatedBy(i, r)
CreatedRows(j) == {r \in PartitionRows(j) : Created(j, r)}
\* The steps of a load() past the identities, on a partition that holds a
\* record of a completed createCache(): the existence check is true, the
\* branch starts the sync, the fetch returns the record, and the sync ends
\* in the call of onCacheExist with the record in the index.
SurvivesRestart(j, t) ==
    /\ (Moves(j, t, "hasCache", "branch") /\ CreatedRows(j) # {}) =>
           (loads'[j][t].has /\ Holds(hasCache(j, TRUE)))
    /\ (At(j, t, "branch") /\ loads[j][t].has /\ loads'[j][t] # loads[j][t]) =>
           loads'[j][t].pc = "getFullCache"
    /\ Moves(j, t, "getFullCache", "build") =>
           CreatedRows(j) \subseteq Range(loads'[j][t].result)
    /\ (At(j, t, "build") /\ loads'[j][t] # loads[j][t]
           /\ \E r \in Range(loads[j][t].result) : Created(j, r)) =>
           /\ loads'[j][t].pc = "onCacheExist"
           /\ \A r \in Range(loads[j][t].result) : Created(j, r) => Contains(j, r)'
\* C11 (cache survives a restart): an instance that loads after a
\* createCache(k, v) completed on its (process, job, machine) sees hasCache()
\* true, takes the onCacheExist branch, and has the record under key k.
C11_CacheSurvivesRestart ==
    [][\A j \in Jobs : \A t \in Threads(j) : SurvivesRestart(j, t)]_vars

\* --------------------------------------------------------------- C12
\* The records the table holds for key k under the identities and the
\* machine of instance i.
StoredUnder(i, k) ==
    {r \in Range(store) : /\ r.machine = machineName[i] /\ r.key = k
                          /\ r.process = process[i] /\ r.job = processJob[i]}
Ascending(seq) == \A a, b \in 1..Len(seq) : a < b => seq[a].id < seq[b].id
\* A createCache() of i completes with this step.
Completes(i) == creates[i].st = "inserted" /\ creates'[i].st = "none"
ReadsOwnWrite(i) ==
    /\ \A t \in Threads(i) :
           /\ (Moves(i, t, "hasCache", "branch") /\ PartitionRows(i) = {}) =>
                  (~loads'[i][t].has /\ ~Holds(hasCache(i, TRUE)))
           /\ (At(i, t, "branch") /\ ~loads[i][t].has /\ loads'[i][t] # loads[i][t]) =>
                  loads'[i][t].pc = "onCacheEmpty"
    /\ (creates[i].st = "issued" /\ creates'[i].st = "inserted") =>
           (creates'[i].row.key = creates[i].key /\ creates'[i].row.value = creates[i].value)
    /\ (loaded[i] /\ ~early[i] /\ Completes(i)) =>
           \A k \in Keys :
               k = creates[i].row.key =>
                   LET got == getCache(i, k, TRUE)'
                   IN /\ got.outcome = "resolved"
                      /\ Range(got.value) = StoredUnder(i, k)'
                      /\ Len(got.value) = Cardinality(StoredUnder(i, k)')
                      /\ Ascending(got.value)
                      /\ creates[i].row \in Range(got.value)
                      /\ (OnlyWriter(i) /\ own[i] = {creates[i].row.id}
                             /\ Len(store) = 1) =>
                             got.value = <<creates[i].row>>
\* C12 (read-your-writes through storage): an instance loaded on no records
\* takes the cache-empty branch; once its createCache(k, v) has completed,
\* getCache(k) returns exactly the records storage holds for k, the new one
\* among them, and that one alone when nothing else was written.
C12_ReadYourWrites == [][\A i \in Jobs : ReadsOwnWrite(i)]_vars
\* Loaded on the cache-empty branch, one createCache() completed, and
\* getCache returns that one record.
C12_Witness ==
    \E i \in Jobs : \E k \in Keys :
        /\ loaded[i] /\ ~early[i] /\ Len(loads[i]) = 1 /\ did[i].hook = 1
        /\ Len(store) = 1 /\ own[i] = {1} /\ creates[i] = NoCreate
        /\ getCache(i, k, TRUE).value = <<Row(1, process[i], processJob[i],
                                               JobMachine(i), k, "v1")>>
        /\ cacheTree[i][k] = getCache(i, k, TRUE).value

\* --------------------------------------------------------------- C13
\* The order of the steps of one load(): which await follows which.
Follows ==
    { <<"mgrLoad", "machineLoad">>, <<"machineLoad", "createProcess">>,
      <<"createProcess", "createJob">>, <<"createJob", "hasCache">>,
      <<"hasCache", "branch">>,
      <<"branch", "getFullCache">>, <<"getFullCache", "build">>,
      <<"build", "onCacheExist">>, <<"onCacheExist", "resolved">>,
      <<"branch", "onCacheEmpty">>, <<"onCacheEmpty", "resolved">> }
Abandoned == {"threw", "stuck"}
Step(i, t, a, b) == loads[i][t].pc = a /\ loads'[i][t].pc = b
StepsInOrder(i) ==
    /\ \A t \in Threads(i) :
           /\ loads'[i][t].pc # loads[i][t].pc =>
                  \/ <<loads[i][t].pc, loads'[i][t].pc>> \in Follows
                  \/ /\ loads'[i][t].pc \in Abandoned
                     /\ loads[i][t].pc \notin Abandoned \cup {"resolved"}
           /\ Step(i, t, "createProcess", "createJob") => process'[i] # 0
           /\ Step(i, t, "createJob", "hasCache") =>
                  /\ process[i] # 0 /\ processJob'[i] # 0
                  /\ processJobs'[processJob'[i]] = <<process[i], jobName(i)>>
           /\ Step(i, t, "hasCache", "branch") => Scoped(process[i], processJob[i])
           /\ Step(i, t, "branch", "getFullCache") => loads[i][t].has
           /\ Step(i, t, "branch", "onCacheEmpty") => ~loads[i][t].has
    /\ Len(loads'[i]) # Len(loads[i]) =>
           /\ Len(loads'[i]) = Len(loads[i]) + 1
           /\ loads'[i][Len(loads'[i])].pc = IF loaded[i] THEN "resolved" ELSE "mgrLoad"
    /\ process'[i] # process[i] => \E t \in Threads(i) : Step(i, t, "createProcess", "createJob")
    /\ processJob'[i] # processJob[i] => \E t \in Threads(i) : Step(i, t, "createJob", "hasCache")
    /\ loaded'[i] # loaded[i] =>
           /\ loaded'[i]
           /\ \E t \in Threads(i) : \/ Step(i, t, "onCacheExist", "resolved")
                                     \/ Step(i, t, "onCacheEmpty", "resolved")
\* C13 (load step ordering): every step of a load() is the one that follows
\* the step before it (machine context, process, job from that process,
\* existence check, then sync and onCacheExist or else onCacheEmpty), or
\* abandons the load; the identities change only at their own step, and
\* loaded becomes true only at the step the hook completes.
C13_LoadStepOrder == [][\A i \in Jobs : StepsInOrder(i)]_vars
\* A load() in its onCacheExist hook after a sync: both identities set, the
\* index built, loaded still false.
C13_Witness ==
    \E i \in Jobs :
        /\ Len(loads[i]) = 1 /\ loads[i][1].pc = "onCacheExist"
        /\ process[i] # 0 /\ processJob[i] # 0
        /\ TreeRows(i) # {} /\ ~loaded[i]

\* --------------------------------------------------------------- C14
WithKey(rows, k) == SelectSeq(rows, LAMBDA r : r.key = k)
\* Both maps are as a sync leaves them before its fetch returns.
Cleared(i) == cacheTree[i] = EmptyTree /\ cacheResults[i] = EmptyResults
SyncRebuilds(i, t) ==
    /\ Step(i, t, "branch", "getFullCache") => Cleared(i)'
    /\ Step(i, t, "getFullCache", "build") =>
           /\ Range(loads'[i][t].result) = PartitionRows(i)
           /\ Ascending(loads'[i][t].result)
    /\ (Step(i, t, "build", "onCacheExist") /\ Cleared(i)) =>
           LET rows == loads[i][t].result
           IN /\ \A k \in Keys : cacheTree'[i][k] = WithKey(rows, k)
              /\ DOMAIN cacheResults'[i] = {rows[n].id : n \in 1..Len(rows)}
              /\ Cardinality(DOMAIN cacheResults'[i]) = Len(rows)
              /\ \A n \in 1..Len(rows) : cacheResults'[i][rows[n].id] = rows[n]
\* C14 (sync is a full rebuild): a sync starts by emptying both maps; its
\* fetch returns the partition in table order; when it finishes and nothing
\* was written to the maps meanwhile, each key's bucket is the fetched
\* records of that key in fetched order and the id map has one entry per
\* fetched record, under its id.
C14_SyncFullRebuild ==
    [][\A i \in Jobs : \A t \in Threads(i) : SyncRebuilds(i, t)]_vars
\* A sync has finished on an instance that had put a record of its own in
\* the index: a bucket holds two records, in id order, each once.
C14_Witness ==
    \E i \in Jobs : \E k \in Keys :
        /\ Len(loads[i]) = 1 /\ loads[i][1].pc = "onCacheExist"
        /\ own[i] # {} /\ creates[i] = NoCreate
        /\ Len(cacheTree[i][k]) = 2 /\ Ascending(cacheTree[i][k])
        /\ DOMAIN cacheResults[i] = {1, 2}

\* --------------------------------------------------------------- C15
SameIndex(i) == cacheTree'[i] = cacheTree[i] /\ cacheResults'[i] = cacheResults[i]
EmptyBranchFrame(i, t) ==
    /\ Step(i, t, "hasCache", "branch") => SameIndex(i)
    /\ (loads[i][t].pc = "branch" /\ ~loads[i][t].has /\ loads'[i][t] # loads[i][t]) =>
           /\ loads'[i][t].pc = "onCacheEmpty"
           /\ SameIndex(i) /\ store' = store
    /\ (loads[i][t].pc = "onCacheEmpty" /\ loads'[i][t] # loads[i][t]) =>
           /\ loads'[i][t].pc \in {"resolved", "threw"}
           /\ SameIndex(i) /\ store' = store
    /\ (Len(loads'[i]) = 1 /\ ~early'[i] /\ loads'[i][t].pc = "onCacheEmpty") =>
           Cleared(i)'
\* C15 (the cache-empty branch leaves the index alone): the existence check
\* and, on a false result, the rest of load() change neither map, start no
\* fetch and go to onCacheEmpty and from there to the end; on an instance
\* used for nothing else, both maps are at onCacheEmpty as constructed.
C15_EmptyBranchFrame ==
    [][\A i \in Jobs : \A t \in Threads(i) : EmptyBranchFrame(i, t)]_vars
\* onCacheEmpty is running on maps that are not empty: a createCache() of the
\* instance landed after the existence check.
C15_Witness ==
    \E i \in Jobs :
        /\ Len(loads[i]) = 1 /\ loads[i][1].pc = "onCacheEmpty"
        /\ TreeRows(i) # {} /\ ResultRows(i) = TreeRows(i)
        /\ creates[i] = NoCreate

\* --------------------------------------------------------------- C16
IndexRows(i) == TreeRows(i) \cup ResultRows(i)
\* The records of the table that a createCache() of i inserted and whose
\* then() has run.
OwnRows(i) ==
    {r \in Range(store) :
        r.id \in own[i] /\ ~(creates[i].st = "inserted" /\ creates[i].row.id = r.id)}
\* The index of a loaded instance whose load() calls have all resolved and
\* whose createCache() calls were made after it was loaded: it holds every
\* record of its own, in buckets and id map alike, and only records that
\* are in storage under its own identities and machine.
OwnAndStored(i) ==
    (loaded[i] /\ ~early[i] /\ \A t \in Threads(i) : loads[i][t].pc = "resolved") =>
        /\ OwnRows(i) \subseteq TreeRows(i)
        /\ OwnRows(i) \subseteq ResultRows(i)
        /\ IndexRows(i) \subseteq PartitionRows(i)
\* What a step may do to the index of i, every instance being used as
\* intended (one load(), written to when loaded): a sync of i empties it and later
\* adds exactly the records its fetch returned, a then() of i adds exactly
\* the record i inserted, and nothing else changes it; an insert of another
\* instance shows in what getFullCache and getCache of i return.
OwnViewOnly(i) ==
    /\ (AsIntended /\ ~SameIndex(i)) =>
           \/ \E t \in Threads(i) :
                  \/ Step(i, t, "branch", "getFullCache") /\ Cleared(i)'
                  \/ /\ loads[i][t].pc = "build" /\ loads'[i][t].pc # "build"
                     /\ TreeRows(i)' = TreeRows(i) \cup Range(loads[i][t].result)
                     /\ ResultRows(i)' = ResultRows(i) \cup Range(loads[i][t].result)
           \/ /\ creates[i].st = "inserted" /\ creates'[i].st # "inserted"
              /\ creates[i].row.id \in own[i]
              /\ TreeRows(i)' = TreeRows(i) \cup {creates[i].row}
              /\ ResultRows(i)' = ResultRows(i) \cup {creates[i].row}
    /\ \A j \in Jobs \ {i} :
           (creates[j].st = "issued" /\ creates'[j].st = "inserted") =>
               /\ SameIndex(i)
               /\ creates'[j].row \notin IndexRows(i)'
               /\ SamePartition(i, j) =>
                      /\ getFullCache(i, TRUE)'.value =
                             Append(getFullCache(i, TRUE).value, creates'[j].row)
                      /\ \A k \in Keys : k = creates[j].key =>
                             getCache(i, k, TRUE)'.value =
                                 Append(getCache(i, k, TRUE).value, creates'[j].row)
\* C16 (cross-instance view): the index of an instance is what its last sync
\* returned plus the records its own createCache() calls created, all of
\* them in storage; a record another instance writes enters it with no step
\* of that instance and is seen through getCache and getFullCache.
C16_CrossInstanceView ==
    /\ [](\A i \in Jobs : OwnAndStored(i))
    /\ [][\A i \in Jobs : OwnViewOnly(i)]_vars

\* --------------------------------------------------------------- C17
\* C17 (overlapping loads): while no load() of an instance has failed (so
\* that a second load() that ran its body was called during the first),
\* the instance has resolved its identities at most once and has called a
\* hook, after at most one sync, at most once.
C17_OverlappingLoadsOnce ==
    \A i \in Jobs :
        (\A t \in Threads(i) : ~Failed(loads[i][t])) =>
            (did[i].identity <= 1 /\ did[i].hook <= 1)

\* --------------------------------------------------------------- C18
\* The places <<key, position>> of the buckets of i at which id sits.
Places(i, id) ==
    {<<k, n>> \in Keys \X (1..MaxRecords + MaxRecords) :
        n <= Len(cacheTree[i][k]) /\ cacheTree[i][k][n].id = id}
WellFormed(i) ==
    /\ \A id \in 1..MaxRecords : Cardinality(Places(i, id)) <= 1
    /\ \A k \in Keys : \A n \in 1..Len(cacheTree[i][k]) : cacheTree[i][k][n].key = k
    /\ TreeRows(i) = ResultRows(i)
\* C18 (index well-formedness under interleaving): in every state the index
\* of every instance has each record id at most once over all key buckets,
\* each record in the bucket of its own key, and the same records in the
\* buckets as in the id map.
C18_IndexWellFormed == \A i \in Jobs : WellFormed(i)

\* --------------------------------------------------------------- C19
\* No load() of i takes a step.
LoadsIdle(i) == loads'[i] = loads[i]
WriteFrame(i) ==
    /\ (creates'[i] # creates[i] /\ creates'[i].st = "issued") =>
           /\ SameIndex(i) /\ store' = store /\ loaded' = loaded
    /\ (creates[i].st = "issued" /\ creates'[i].st = "inserted") =>
           /\ SameIndex(i) /\ loaded' = loaded
           /\ store' = Append(store, creates'[i].row)
    /\ (creates[i].st = "issued" /\ creates'[i].st = "pending") =>
           /\ SameIndex(i) /\ loaded' = loaded
           /\ store' = store /\ own' = own
    /\ (creates[i].st = "inserted" /\ creates'[i] # creates[i]) =>
           LET row == creates[i].row
           IN /\ row \in Range(store) /\ store' = store /\ loaded' = loaded
              /\ cacheResults'[i] = Put(cacheResults[i], row.id, row)
              /\ \/ cacheTree'[i] = cacheTree[i] /\ creates'[i].st = "pending"
                 \/ /\ cacheTree'[i] =
                        [cacheTree[i] EXCEPT ![row.key] = Append(@, row)]
                    /\ creates'[i].st = "none"
    /\ (LoadsIdle(i) /\ ~SameIndex(i)) => creates[i].st = "inserted"
\* C19 (a failed write leaves the index unchanged): the call of
\* createCache() and the insert change neither map; the maps change, by the
\* record the store returned, only at the then() of a successful insert; at
\* the step an insert fails, both maps, the loaded flag and the table stay
\* as they are.
C19_FailedWriteFrame == [][\A i \in Jobs : WriteFrame(i)]_vars
\* The last createCache() of a loaded instance failed: its promise is
\* pending, and the index, not empty, is what storage holds.
C19_Witness ==
    \E i \in Jobs :
        /\ loaded[i] /\ ~early[i] /\ creates[i].st = "pending"
        /\ \A r \in Range(store) : ~PushThrows(r)
        /\ IndexRows(i) # {} /\ TreeRows(i) = PartitionRows(i)
        /\ ResultRows(i) = PartitionRows(i)

====
